---- MODULE Spec2Model ----
(***************************************************************************)
(* Tread&Co. inventory manager (src/app.py): the items table, the          *)
(* transactions (audit) table and the operations that write them.          *)
(*                                                                         *)
(* Spec      one sequential caller of the five store operations            *)
(*           (add_stock, remove_stock_by_id, remove_stock_by_signature,    *)
(*           upsert_items_from_df, replace_db_with_df).                    *)
(* SpecUI    the import section of the Streamlit page: every user action   *)
(*           reruns the script once.                                       *)
(* SpecConc  two callers running one quantity-changing operation each on   *)
(*           the same identifier, their reads and writes interleaved.      *)
(***************************************************************************)
EXTENDS Integers, Sequences, FiniteSets, TLC

VARIABLES
    items,          \* table items: id -> [tyre_size, company, series, qty, last_updated]
    transactions,   \* table transactions, in insertion (id) order
    seq,            \* sqlite_sequence of transactions (AUTOINCREMENT): last id handed out
    now,            \* datetime.utcnow(), as a logical clock
    last,           \* the last call made by the sequential caller and its outcome
    import_mode,    \* the "Import mode" selectbox
    uploaded_file,  \* the file_uploader widget
    inventory_xlsx, \* inventory.xlsx in the app folder
    shown,          \* the buttons the last script run rendered
    ui,             \* the last script run: the widget that triggered it, what it called
    cl,             \* per concurrent caller: its operation, what it read, its outcome
    writers         \* the concurrent callers in the order their writes committed

storeVars == <<items, transactions, seq, now, last>>
uiVars    == <<import_mode, uploaded_file, inventory_xlsx, shown, ui>>
concVars  == <<cl, writers>>
vars      == <<items, transactions, seq, now, last,
               import_mode, uploaded_file, inventory_xlsx, shown, ui, cl, writers>>

-----------------------------------------------------------------------------
(* Bounds of the model *)

MaxClock == 2       \* number of committed calls in one behaviour
MaxTx    == 3       \* number of transactions rows ever inserted
MaxRows  == 2       \* rows of one spreadsheet

-----------------------------------------------------------------------------
(* Values *)

NULL == "NULL"      \* SQL NULL / Python None in a text column
None == 0           \* Python None as an id (ids of the model are >= 1)

Ids      == {1, 2}
AddIds   == {None, 1}               \* the ID field of the add form, blank or not
AddQtys  == {2}                     \* st.number_input(min_value=1)
Qtys     == {1, 2}
Reasons  == {"sale"}                \* of ["sale", "damage", "return", "other"]

\* (tyre_size, company, series); a text field holding only blanks strips to ""
DA == <<"T", "Acme", "X">>
DB == <<"T", "Acme", NULL>>
DC == <<"T", NULL, NULL>>
DE == <<"", NULL, NULL>>
DN == <<NULL, NULL, NULL>>          \* a spreadsheet row with a blank Tyre Size cell
Descrs == {DB, DC, DE}

Row(i, d, q) == [id |-> i, tyre_size |-> d[1], company |-> d[2], series |-> d[3], qty |-> q]

\* the rows a parsed spreadsheet is made of
RowSet == { Row(1, DB, 2), Row(1, DC, -1),
            Row(None, DB, 2), Row(None, DC, -1), Row(None, DA, 2), Row(None, DN, 2) }

RowSeqsUpTo(m) == UNION { [1..n -> RowSet] : n \in 0..m }
RowSeqs == RowSeqsUpTo(MaxRows)

-----------------------------------------------------------------------------
(* Helpers *)

Max(S) == CHOOSE x \in S : \A y \in S : y <= x
Min(S) == CHOOSE x \in S : \A y \in S : x <= y

\* the connection's view of the database: what a cursor reads and writes
Db(i, t, s) == [items |-> i, transactions |-> t, seq |-> s, err |-> ""]

\* an exception raised inside a call: later statements do not run
Raise(db, e) == [db EXCEPT !.err = e]

\* INSERT INTO transactions (...): id is the next AUTOINCREMENT value
InsertTransaction(db, item_id, tyre_size, company, series, change, reason, ts, note) ==
    [db EXCEPT !.seq = db.seq + 1,
               !.transactions = Append(@, [id |-> db.seq + 1,
                                           item_id |-> item_id,
                                           tyre_size |-> tyre_size,
                                           company |-> company,
                                           series |-> series,
                                           change |-> change,
                                           reason |-> reason,
                                           timestamp |-> ts,
                                           note |-> note])]

\* INSERT INTO items (id, ...): the primary key must be new
InsertItem(db, item_id, tyre_size, company, series, qty, ts) ==
    IF item_id \in DOMAIN db.items
    THEN Raise(db, "IntegrityError")
    ELSE [db EXCEPT !.items = (item_id :> [tyre_size |-> tyre_size,
                                            company |-> company,
                                            series |-> series,
                                            qty |-> qty,
                                            last_updated |-> ts]) @@ @]

\* INSERT INTO items without id: INTEGER PRIMARY KEY takes max(rowid) + 1
lastrowid(db) == IF DOMAIN db.items = {} THEN 1 ELSE Max(DOMAIN db.items) + 1

-----------------------------------------------------------------------------
(* Signature lookup *)

\* SQL "col = ?": never true when either side is NULL
SqlEq(a, b) == a # NULL /\ b # NULL /\ a = b

\* mutant: an absent company or series in the lookup matches any value
SignatureWhere_NullIsWildcard(rec, tyre_size, company, series) ==
    /\ SqlEq(rec.tyre_size, tyre_size)
    /\ (SqlEq(rec.company, company) \/ company = NULL)
    /\ (SqlEq(rec.series, series) \/ series = NULL)

\* WHERE tyre_size = ? AND (company = ? OR (company IS NULL AND ? IS NULL))
\*                    AND (series = ? OR (series IS NULL AND ? IS NULL))
SignatureWhere(rec, tyre_size, company, series) ==
    /\ SqlEq(rec.tyre_size, tyre_size)
    /\ (SqlEq(rec.company, company) \/ (rec.company = NULL /\ company = NULL))
    /\ (SqlEq(rec.series, series) \/ (rec.series = NULL /\ series = NULL))

\* the ids the SELECT yields; fetchone() takes the first of a rowid-ordered scan
SelectBySignature(db, tyre_size, company, series) ==
    { i \in DOMAIN db.items : SignatureWhere(db.items[i], tyre_size, company, series) }

-----------------------------------------------------------------------------
(* upsert_items_from_df *)

\* mutant: a row with a known id sets the quantity instead of adding to it
UpsertRowWithId_SetsQty(db, r, ts) ==
    LET item_id == r.id
        db1 == IF item_id \in DOMAIN db.items
               THEN [db EXCEPT !.items[item_id] =
                        [tyre_size |-> r.tyre_size,
                         company |-> r.company,
                         series |-> r.series,
                         qty |-> r.qty,
                         last_updated |-> ts]]
               ELSE InsertItem(db, item_id, r.tyre_size, r.company, r.series, r.qty, ts)
    IN  InsertTransaction(db1, item_id, r.tyre_size, r.company, r.series, r.qty,
                          "import_upsert", ts, "import from excel")

\* one iteration of the loop over rows_with_id
UpsertRowWithId(db, r, ts) ==
    LET item_id == r.id
        db1 == IF item_id \in DOMAIN db.items
               THEN [db EXCEPT !.items[item_id] =
                        [tyre_size |-> r.tyre_size,
                         company |-> r.company,
                         series |-> r.series,
                         qty |-> db.items[item_id].qty + r.qty,
                         last_updated |-> ts]]
               ELSE InsertItem(db, item_id, r.tyre_size, r.company, r.series, r.qty, ts)
    IN  InsertTransaction(db1, item_id, r.tyre_size, r.company, r.series, r.qty,
                          "import_upsert", ts, "import from excel")

\* one iteration of the loop over rows_no_id
UpsertRowNoId(db, r, ts) ==
    LET found == SelectBySignature(db, r.tyre_size, r.company, r.series)
    IN  IF found # {}
        THEN LET item_id == Min(found)
                 db1 == [db EXCEPT !.items[item_id].qty = @ + r.qty,
                                   !.items[item_id].last_updated = ts]
             IN  InsertTransaction(db1, item_id, r.tyre_size, r.company, r.series, r.qty,
                                   "import_merge_signature", ts, "imported by signature")
        ELSE LET new_id == lastrowid(db)
                 db1 == InsertItem(db, new_id, r.tyre_size, r.company, r.series, r.qty, ts)
             IN  InsertTransaction(db1, new_id, r.tyre_size, r.company, r.series, r.qty,
                                   "import_new", ts, "new row from excel")

HasId(r) == r.id # None
HasNoId(r) == r.id = None

\* mutant: one loop over the rows as they come
ProcessingOrder_AsGiven(rows) == rows

\* df_in[df_in['id'].notna()] followed by df_in[df_in['id'].isna()]: the order in which
\* the two loops visit the rows
ProcessingOrder(rows) == SelectSeq(rows, HasId) \o SelectSeq(rows, HasNoId)

UpsertRow(db, r, ts) == IF HasId(r) THEN UpsertRowWithId(db, r, ts) ELSE UpsertRowNoId(db, r, ts)

RECURSIVE UpsertLoop(_, _, _)
\* the two loops, run on one connection without an intermediate commit
UpsertLoop(db, rs, ts) ==
    IF rs = <<>> THEN db
    ELSE UpsertLoop(UpsertRow(db, Head(rs), ts), Tail(rs), ts)

\* mutant: a commit after every row, so that the rows before the failing one stay
upsert_items_from_df_CommitPerRow(db, rows, ts, fail_at) ==
    IF rows = <<>> THEN Raise(db, "KeyError")
    ELSE IF fail_at # 0
         THEN Raise(UpsertLoop(db, SubSeq(ProcessingOrder(rows), 1, fail_at - 1), ts),
                    "StoreError")
    ELSE UpsertLoop(db, ProcessingOrder(rows), ts)

\* The database the call leaves behind. fail_at = k > 0: a statement of the k-th row
\* visited raises (sqlite3.Error); conn.commit() on the last line is never reached and
\* the connection is dropped with its transaction open, which rolls all of it back.
\* An empty DataFrame has no 'id' column: df_in['id'] raises KeyError before any write.
upsert_items_from_df(db, rows, ts, fail_at) ==
    IF rows = <<>> THEN Raise(db, "KeyError")
    ELSE IF fail_at # 0 THEN Raise(db, "StoreError")
    ELSE UpsertLoop(db, ProcessingOrder(rows), ts)

-----------------------------------------------------------------------------
(* replace_db_with_df *)

\* one iteration of the loop; a raised exception ends the loop
ReplaceRow(db, r, ts) ==
    IF db.err # "" THEN db
    ELSE LET item_id == IF r.id # None THEN r.id ELSE lastrowid(db)
             db1 == InsertItem(db, item_id, r.tyre_size, r.company, r.series, r.qty, ts)
         IN  IF db1.err # "" THEN db1
             ELSE InsertTransaction(db1, item_id, r.tyre_size, r.company, r.series, r.qty,
                                    "replace_import", ts, "replace db from excel")

RECURSIVE ReplaceLoop(_, _, _)
ReplaceLoop(db, rs, ts) ==
    IF rs = <<>> THEN db
    ELSE ReplaceLoop(ReplaceRow(db, Head(rs), ts), Tail(rs), ts)

\* mutant: the two DELETE statements are missing
replace_db_with_df_NoDelete(db, rows, ts) ==
    LET done == ReplaceLoop(db, rows, ts)
    IN  IF done.err # "" THEN Raise(db, done.err) ELSE done

\* DELETE FROM transactions; DELETE FROM items; the loop; commit. sqlite_sequence keeps
\* its value across DELETE. An exception in the loop skips the commit: the deletes are
\* rolled back with the inserts.
replace_db_with_df(db, rows, ts) ==
    LET wiped == [db EXCEPT !.items = <<>>, !.transactions = <<>>]
        done == ReplaceLoop(wiped, rows, ts)
    IN  IF done.err # "" THEN Raise(db, done.err) ELSE done

-----------------------------------------------------------------------------
(* add_stock, remove_stock_by_id, remove_stock_by_signature *)

add_stock(db, item_id, tyre_size, company, series, qty, ts, note) ==
    LET id1 == IF item_id # None THEN item_id ELSE lastrowid(db)
        db1 == IF item_id # None /\ item_id \in DOMAIN db.items
               THEN [db EXCEPT !.items[item_id] =
                        [tyre_size |-> tyre_size,
                         company |-> company,
                         series |-> series,
                         qty |-> db.items[item_id].qty + qty,
                         last_updated |-> ts]]
               ELSE InsertItem(db, id1, tyre_size, company, series, qty, ts)
    IN  InsertTransaction(db1, id1, tyre_size, company, series, qty, "stock_in", ts, note)

\* mutant: a removal that empties a record deletes it
remove_stock_by_id_DeletesEmptied(db, item_id, qty, reason, ts, note) ==
    IF item_id \notin DOMAIN db.items THEN Raise(db, "Item ID not found.")
    ELSE LET row == db.items[item_id]
         IN  IF qty > row.qty THEN Raise(db, "Not enough stock.")
             ELSE LET db1 == IF row.qty = qty
                             THEN [db EXCEPT !.items =
                                      [i \in DOMAIN db.items \ {item_id} |-> db.items[i]]]
                             ELSE [db EXCEPT !.items[item_id].qty = row.qty - qty,
                                             !.items[item_id].last_updated = ts]
                  IN  InsertTransaction(db1, item_id, row.tyre_size, row.company,
                                        row.series, 0 - qty, reason, ts, note)

\* mutant: the check of the requested against the current quantity is missing
remove_stock_by_id_NoStockCheck(db, item_id, qty, reason, ts, note) ==
    IF item_id \notin DOMAIN db.items THEN Raise(db, "Item ID not found.")
    ELSE LET row == db.items[item_id]
             db1 == [db EXCEPT !.items[item_id].qty = row.qty - qty,
                               !.items[item_id].last_updated = ts]
         IN  InsertTransaction(db1, item_id, row.tyre_size, row.company,
                               row.series, 0 - qty, reason, ts, note)

remove_stock_by_id(db, item_id, qty, reason, ts, note) ==
    IF item_id \notin DOMAIN db.items THEN Raise(db, "Item ID not found.")
    ELSE LET row == db.items[item_id]
         IN  IF qty > row.qty THEN Raise(db, "Not enough stock.")
             ELSE LET db1 == [db EXCEPT !.items[item_id].qty = row.qty - qty,
                                        !.items[item_id].last_updated = ts]
                  IN  InsertTransaction(db1, item_id, row.tyre_size, row.company,
                                        row.series, 0 - qty, reason, ts, note)

\* the id of the row fetchone() returns, or None
find_item_by_signature(db, tyre_size, company, series) ==
    LET found == SelectBySignature(db, tyre_size, company, series)
    IN  IF found = {} THEN None ELSE Min(found)

\* mutant: the quantity is updated but no transactions row is inserted
remove_stock_by_signature_NoAudit(db, tyre_size, company, series, qty, reason, ts, note) ==
    LET item_id == find_item_by_signature(db, tyre_size, company, series)
    IN  IF item_id = None THEN Raise(db, "Item not found by signature.")
        ELSE LET found == db.items[item_id]
             IN  IF qty > found.qty THEN Raise(db, "Not enough stock.")
                 ELSE [db EXCEPT !.items[item_id].qty = found.qty - qty,
                                 !.items[item_id].last_updated = ts]

\* mutant: the stock check comes after the committed write
remove_stock_by_signature_CheckAfterWrite(db, tyre_size, company, series, qty, reason, ts, note) ==
    LET item_id == find_item_by_signature(db, tyre_size, company, series)
    IN  IF item_id = None THEN Raise(db, "Item not found by signature.")
        ELSE LET found == db.items[item_id]
                 db1 == [db EXCEPT !.items[item_id].qty = found.qty - qty,
                                   !.items[item_id].last_updated = ts]
                 db2 == InsertTransaction(db1, item_id, found.tyre_size, found.company,
                                          found.series, 0 - qty, reason, ts, note)
             IN  IF qty > found.qty THEN Raise(db2, "Not enough stock.") ELSE db2

remove_stock_by_signature(db, tyre_size, company, series, qty, reason, ts, note) ==
    LET item_id == find_item_by_signature(db, tyre_size, company, series)
    IN  IF item_id = None THEN Raise(db, "Item not found by signature.")
        ELSE LET found == db.items[item_id]
             IN  IF qty > found.qty THEN Raise(db, "Not enough stock.")
                 ELSE LET db1 == [db EXCEPT !.items[item_id].qty = found.qty - qty,
                                            !.items[item_id].last_updated = ts]
                      IN  InsertTransaction(db1, item_id, found.tyre_size, found.company,
                                            found.series, 0 - qty, reason, ts, note)

-----------------------------------------------------------------------------
(* get_items_df *)

RECURSIVE OrderById(_, _)
\* SELECT * FROM items ORDER BY id
OrderById(its, remaining) ==
    IF remaining = {} THEN <<>>
    ELSE LET i == Min(remaining)
         IN  <<[id |-> i, tyre_size |-> its[i].tyre_size, company |-> its[i].company,
                series |-> its[i].series, qty |-> its[i].qty,
                last_updated |-> its[i].last_updated]>>
             \o OrderById(its, remaining \ {i})

\* the frame of all records; a NULL column value is None in the frame
get_items_df(db) == OrderById(db.items, DOMAIN db.items)

\* the columns of a frame that upsert_items_from_df reads: r['id'], r['tyre_size'],
\* r['company'], r['series'], r['qty']; None is bound as NULL again
ColumnsRead(df) ==
    [k \in 1..Len(df) |->
        Row(df[k].id, <<df[k].tyre_size, df[k].company, df[k].series>>, df[k].qty)]

-----------------------------------------------------------------------------
(* The sequential caller *)

\* the call and what it reported; rows: the spreadsheet of an import that committed;
\* fail_at: the row at which an import raised
NoCall == [op |-> "none", err |-> "", rows |-> <<>>, fail_at |-> 0]

Imported(db, rows) == IF db.err = "" THEN rows ELSE <<>>

\* What a call that ran on db leaves behind: its writes if it reached conn.commit(),
\* nothing if it raised. The clock is read by every call, but only a call that commits
\* writes what it read, so the logical clock advances with the commits.
Commit(db) ==
    /\ db.seq <= MaxTx
    /\ items' = db.items
    /\ transactions' = db.transactions
    /\ seq' = db.seq
    /\ now' = IF db.err = "" THEN now + 1 ELSE now
    /\ now' <= MaxClock
    /\ UNCHANGED concVars

Current == Db(items, transactions, seq)

\* no file anywhere: the file_uploader is empty, the app folder has no inventory.xlsx
NoFile == [state |-> "none", rows |-> <<>>]

NoRun == [clicked |-> "none", mode |-> "Merge", call |-> "none"]

\* a caller of the store with no call under way: the call's arguments, its position,
\* what its SELECT returned, the timestamp it took, the quantity it wrote, its exception
NoCaller == [op |-> "none", pc |-> "idle", item_id |-> None, descr |-> DN, qty |-> 0,
             found |-> FALSE, cur_qty |-> 0, row |-> DN, ts |-> 0, wrote |-> 0,
             err |-> ""]

Callers == {"a", "b"}

\* init_db() on a fresh inventory.db, and the page as first rendered
Init ==
    /\ items = <<>>
    /\ transactions = <<>>
    /\ seq = 0
    /\ now = 0
    /\ last = NoCall
    /\ import_mode = "Merge"
    /\ uploaded_file = NoFile
    /\ inventory_xlsx = NoFile
    /\ shown = {"import_file"}
    /\ ui = NoRun
    /\ cl = [c \in Callers |-> NoCaller]
    /\ writers = <<>>

AddStock ==
    \E item_id \in AddIds, d \in Descrs, qty \in AddQtys :
        LET db == add_stock(Current, item_id, d[1], d[2], d[3], qty, now + 1, NULL)
        IN  /\ Commit(db)
            /\ last' = [NoCall EXCEPT !.op = "add_stock", !.err = db.err]
            /\ UNCHANGED uiVars

RemoveStockById ==
    \E item_id \in Ids, qty \in Qtys, reason \in Reasons :
        LET db == remove_stock_by_id(Current, item_id, qty, reason, now + 1, NULL)
        IN  /\ Commit(db)
            /\ last' = [NoCall EXCEPT !.op = "remove_stock_by_id", !.err = db.err]
            /\ UNCHANGED uiVars

RemoveStockBySignature ==
    \E d \in Descrs, qty \in Qtys, reason \in Reasons :
        LET db == remove_stock_by_signature(Current, d[1], d[2], d[3], qty, reason,
                                            now + 1, NULL)
        IN  /\ Commit(db)
            /\ last' = [NoCall EXCEPT !.op = "remove_stock_by_signature",
                                      !.err = db.err]
            /\ UNCHANGED uiVars

\* the rows of a spreadsheet, as far as MaxTx leaves room for their transactions
Spreadsheets == RowSeqsUpTo(IF MaxTx - seq < MaxRows THEN MaxTx - seq ELSE MaxRows)

UpsertItemsFromDf ==
    \E rows \in Spreadsheets :
        \E fail_at \in 0..Len(rows) :
            LET db == upsert_items_from_df(Current, rows, now + 1, fail_at)
            IN  /\ Commit(db)
                /\ last' = [NoCall EXCEPT !.op = "upsert_items_from_df",
                                          !.err = db.err, !.rows = Imported(db, rows),
                                          !.fail_at = fail_at]
                /\ UNCHANGED uiVars

ReplaceDbWithDf ==
    \E rows \in Spreadsheets :
        LET db == replace_db_with_df(Current, rows, now + 1)
        IN  /\ Commit(db)
            /\ last' = [NoCall EXCEPT !.op = "replace_db_with_df", !.err = db.err,
                                      !.rows = Imported(db, rows)]
            /\ UNCHANGED uiVars

Next ==
    \/ AddStock
    \/ RemoveStockById
    \/ RemoveStockBySignature
    \/ UpsertItemsFromDf
    \/ ReplaceDbWithDf

Spec == Init /\ [][Next]_vars

-----------------------------------------------------------------------------
(* The import section of the page *)

Modes == {"Merge", "Replace"}   \* "Merge / Upsert (recommended)", "Replace DB with Excel (destructive)"

\* a workbook with the required columns and its canonical rows, or one without them
Sheet(rows) == [state |-> "ok", rows |-> rows]
BadFile     == [state |-> "bad", rows |-> <<>>]
Workbooks   == { Sheet(<<>>), Sheet(<<Row(1, DB, 2)>>),
                 Sheet(<<Row(None, DB, 2), Row(1, DC, -1)>>), BadFile }

\* st.button(b): True only in the script run that the click on b triggered
Pressed(b, clicked) == clicked = b

Nothing == [call |-> "none", rows |-> <<>>, shown |-> {}]

\* a page that replaced the store on the start click alone
UploadBlock_ReplaceOnStart(clicked, mode, file) ==
    IF file.state # "ok" THEN Nothing
    ELSE IF ~Pressed("start", clicked) THEN [Nothing EXCEPT !.shown = {"start"}]
    ELSE IF mode = "Merge"
         THEN [call |-> "upsert_items_from_df", rows |-> file.rows, shown |-> {"start"}]
    ELSE [call |-> "replace_db_with_df", rows |-> file.rows, shown |-> {"start"}]

\* "if uploaded_file is not None: ..." for the run triggered by `clicked`
UploadBlock(clicked, mode, file) ==
    IF file.state = "none" THEN Nothing
    ELSE IF file.state = "bad" THEN Nothing      \* read_excel_to_df raises ValueError
    ELSE IF ~Pressed("start", clicked) THEN [Nothing EXCEPT !.shown = {"start"}]
    ELSE IF mode = "Merge"
         THEN [call |-> "upsert_items_from_df", rows |-> file.rows, shown |-> {"start"}]
    ELSE IF Pressed("confirm", clicked)
         THEN [call |-> "replace_db_with_df", rows |-> file.rows,
               shown |-> {"start", "confirm"}]
    ELSE [Nothing EXCEPT !.shown = {"start", "confirm"}]

\* "if st.button("Import from inventory.xlsx in app folder"): ..."
FileBlock(clicked, mode, file) ==
    IF ~Pressed("import_file", clicked) THEN [Nothing EXCEPT !.shown = {"import_file"}]
    ELSE IF file.state = "none" THEN [Nothing EXCEPT !.shown = {"import_file"}]
    ELSE IF file.state = "bad" THEN [Nothing EXCEPT !.shown = {"import_file"}]
    ELSE IF mode = "Merge"
         THEN [call |-> "upsert_items_from_df", rows |-> file.rows,
               shown |-> {"import_file"}]
    ELSE IF Pressed("confirm_file", clicked)
         THEN [call |-> "replace_db_with_df", rows |-> file.rows,
               shown |-> {"import_file", "confirm_file"}]
    ELSE [Nothing EXCEPT !.shown = {"import_file", "confirm_file"}]

\* One run of the script, triggered by `clicked`, with the widget values of the run.
\* At most one button is pressed in a run, so at most one of the blocks calls the store.
ScriptRun(clicked, mode, upload, file) ==
    LET u == UploadBlock(clicked, mode, upload)
        f == FileBlock(clicked, mode, file)
        c == IF u.call # "none" THEN u ELSE f
    IN  /\ shown' = u.shown \cup f.shown
        /\ ui' = [clicked |-> clicked, mode |-> mode, call |-> c.call]
        /\ UNCHANGED concVars
        /\ IF c.call = "none"
           THEN UNCHANGED storeVars
           ELSE \E fail_at \in 0..Len(c.rows) :
                   LET db == IF c.call = "upsert_items_from_df"
                             THEN upsert_items_from_df(Current, c.rows, now + 1, fail_at)
                             ELSE replace_db_with_df(Current, c.rows, now + 1)
                   IN  /\ db.seq <= MaxTx
                       /\ items' = db.items
                       /\ transactions' = db.transactions
                       /\ seq' = db.seq
                       /\ now' = IF db.err = "" THEN now + 1 ELSE now
                       /\ now' <= MaxClock
                       /\ last' = [NoCall EXCEPT !.op = c.call, !.err = db.err,
                                                 !.rows = Imported(db, c.rows),
                                                 !.fail_at = fail_at]

\* the user picks an import mode
SelectMode ==
    \E m \in Modes :
        /\ m # import_mode
        /\ import_mode' = m
        /\ UNCHANGED <<uploaded_file, inventory_xlsx>>
        /\ ScriptRun("import_mode", m, uploaded_file, inventory_xlsx)

\* the user uploads a workbook, or clears the uploader
Upload ==
    \E w \in Workbooks \cup {NoFile} :
        /\ w # uploaded_file
        /\ uploaded_file' = w
        /\ UNCHANGED <<import_mode, inventory_xlsx>>
        /\ ScriptRun("uploaded_file", import_mode, w, inventory_xlsx)

\* the run that a click on button b triggers
Clicked(b) ==
    /\ UNCHANGED <<import_mode, uploaded_file, inventory_xlsx>>
    /\ ScriptRun(b, import_mode, uploaded_file, inventory_xlsx)

\* the user clicks a button the page shows
ClickStart ==
    /\ "start" \in shown
    /\ Clicked("start")

ClickConfirm ==
    /\ "confirm" \in shown
    /\ Clicked("confirm")

ClickImportFile ==
    /\ "import_file" \in shown
    /\ Clicked("import_file")

ClickConfirmFile ==
    /\ "confirm_file" \in shown
    /\ Clicked("confirm_file")

\* someone puts a workbook named inventory.xlsx into the app folder; no script runs
PlaceFile ==
    \E w \in Workbooks :
        /\ inventory_xlsx = NoFile
        /\ inventory_xlsx' = w
        /\ UNCHANGED <<storeVars, import_mode, uploaded_file, shown, ui, concVars>>

NextUI ==
    \/ SelectMode
    \/ Upload
    \/ ClickStart
    \/ ClickConfirm
    \/ ClickImportFile
    \/ ClickConfirmFile
    \/ PlaceFile

SpecUI == Init /\ [][NextUI]_vars

-----------------------------------------------------------------------------
(* Two callers of the store: each call's SELECT and its write are separate steps *)

ConcOps    == {"add_stock", "remove_stock_by_id", "remove_stock_by_signature"}
ConcDescrs == {DB, DA}
SeedQtys   == {1, 2, 3}

\* the stores the callers start from: a fresh one, or one with record 1 stocked
ConcSeeds ==
    {Db(<<>>, <<>>, 0)} \cup
    { add_stock(Db(<<>>, <<>>, 0), 1, DB[1], DB[2], DB[3], q, 1, NULL) : q \in SeedQtys }

ConcInit ==
    /\ \E db \in ConcSeeds :
          /\ items = db.items
          /\ transactions = db.transactions
          /\ seq = db.seq
    /\ now = 1
    /\ last = NoCall
    /\ import_mode = "Merge"
    /\ uploaded_file = NoFile
    /\ inventory_xlsx = NoFile
    /\ shown = {"import_file"}
    /\ ui = NoRun
    /\ cl = [c \in Callers |-> NoCaller]
    /\ writers = <<>>

\* the change a call makes to the quantity
Delta(call) == IF call.op = "add_stock" THEN call.qty ELSE 0 - call.qty

\* a call is entered; add_stock and remove_stock_by_id take their timestamp first
Call(c) ==
    /\ cl[c].pc = "idle"
    /\ \E op \in ConcOps, d \in ConcDescrs, qty \in Qtys :
          cl' = [cl EXCEPT ![c] =
                    [NoCaller EXCEPT !.op = op, !.pc = "called",
                                     !.item_id = IF op = "remove_stock_by_signature"
                                                 THEN None ELSE 1,
                                     !.descr = IF op = "remove_stock_by_id" THEN DN ELSE d,
                                     !.qty = qty,
                                     !.ts = IF op = "remove_stock_by_signature"
                                            THEN 0 ELSE now + 1]]
    /\ now' = now + 1
    /\ UNCHANGED <<items, transactions, seq, last, writers, uiVars>>

\* the call's SELECT and the checks on what it returned
Read(c) ==
    LET call    == cl[c]
        item_id == IF call.op = "remove_stock_by_signature"
                   THEN find_item_by_signature(Current, call.descr[1], call.descr[2],
                                               call.descr[3])
                   ELSE call.item_id
        found   == item_id \in DOMAIN items
        cur_qty == IF found THEN items[item_id].qty ELSE 0
        row     == IF found
                   THEN <<items[item_id].tyre_size, items[item_id].company,
                          items[item_id].series>>
                   ELSE DN
        read    == [call EXCEPT !.item_id = item_id, !.found = found,
                                !.cur_qty = cur_qty, !.row = row]
    IN  /\ call.pc = "called"
        /\ cl' = [cl EXCEPT ![c] =
                    IF call.op = "add_stock" THEN [read EXCEPT !.pc = "read"]
                    ELSE IF ~found
                    THEN [read EXCEPT !.pc = "done",
                                      !.err = IF call.op = "remove_stock_by_id"
                                              THEN "Item ID not found."
                                              ELSE "Item not found by signature."]
                    ELSE IF call.qty > cur_qty
                    THEN [read EXCEPT !.pc = "done", !.err = "Not enough stock."]
                    ELSE [read EXCEPT !.pc = "read"]]
        /\ UNCHANGED <<storeVars, writers, uiVars>>

\* mutant: the write computes the quantity from the record as it is now
NewQty_FromCurrent(call, db) == db.items[call.item_id].qty + Delta(call)

\* new_qty, computed from the quantity the call read
NewQty(call, db) == call.cur_qty + Delta(call)

\* the call's UPDATE or INSERT on items
WriteItem(call, db, ts) ==
    IF call.op = "add_stock" /\ ~call.found
    THEN InsertItem(db, call.item_id, call.descr[1], call.descr[2], call.descr[3],
                    call.qty, ts)
    ELSE IF call.item_id \notin DOMAIN db.items THEN db      \* UPDATE of no row
    ELSE IF call.op = "add_stock"
    THEN [db EXCEPT !.items[call.item_id] =
              [tyre_size |-> call.descr[1], company |-> call.descr[2],
               series |-> call.descr[3], qty |-> NewQty(call, db),
               last_updated |-> ts]]
    ELSE [db EXCEPT !.items[call.item_id].qty = NewQty(call, db),
                    !.items[call.item_id].last_updated = ts]

\* the call's writes and its commit; SQLite lets one writer in at a time, and an
\* exception leaves the call's transaction uncommitted
Write(c) ==
    LET call == cl[c]
        ts   == IF call.op = "remove_stock_by_signature" THEN now + 1 ELSE call.ts
        sig  == IF call.op = "add_stock" THEN call.descr ELSE call.row
        db1  == WriteItem(call, Current, ts)
        db2  == IF db1.err # "" THEN Raise(Current, db1.err)
                ELSE InsertTransaction(db1, call.item_id, sig[1], sig[2], sig[3],
                                       Delta(call),
                                       IF call.op = "add_stock" THEN "stock_in" ELSE "sale",
                                       ts, NULL)
    IN  /\ call.pc = "read"
        /\ items' = db2.items
        /\ transactions' = db2.transactions
        /\ seq' = db2.seq
        /\ now' = IF call.op = "remove_stock_by_signature" THEN now + 1 ELSE now
        /\ cl' = [cl EXCEPT ![c] =
                    [call EXCEPT !.pc = "done", !.ts = ts, !.err = db2.err,
                                 !.wrote = IF db2.err = "" THEN db2.items[call.item_id].qty
                                           ELSE 0]]
        /\ writers' = IF db2.err = "" THEN Append(writers, c) ELSE writers
        /\ UNCHANGED <<last, uiVars>>

NextConc ==
    \E c \in Callers :
        \/ Call(c)
        \/ Read(c)
        \/ Write(c)

SpecConc == ConcInit /\ [][NextConc]_vars

-----------------------------------------------------------------------------
(* Vocabulary of the properties *)

Committed(op) == last.op = op /\ last.err = ""
Failed(op)    == last.op = op /\ last.err # ""

StoreUnchanged == items' = items /\ transactions' = transactions /\ seq' = seq

RECURSIVE SumOfChanges(_, _)
\* the sum of the deltas of the audit entries of txs that reference item_id
SumOfChanges(txs, item_id) ==
    IF txs = <<>> THEN 0
    ELSE (IF Head(txs).item_id = item_id THEN Head(txs).change ELSE 0)
         + SumOfChanges(Tail(txs), item_id)

\* the audit entries of txs written after the first k
Since(txs, k) == SubSeq(txs, k + 1, Len(txs))

QtyOf(its, item_id) == IF item_id \in DOMAIN its THEN its[item_id].qty ELSE 0

AllNonNegative(its) == \A i \in DOMAIN its : its[i].qty >= 0

\* every record's quantity is the sum of its audit entries; no entry lacks its record
AuditBalanced(its, txs) ==
    /\ \A i \in DOMAIN its : its[i].qty = SumOfChanges(txs, i)
    /\ \A k \in 1..Len(txs) : txs[k].item_id \in DOMAIN its

-----------------------------------------------------------------------------
(* C1 *)

\* the audit entries a step adds: all of the log after a replace, the tail otherwise
AddedBy(op) ==
    IF op = "replace_db_with_df" THEN transactions' ELSE Since(transactions', Len(transactions))

\* the quantity a record had before the step; a replace deletes every record first
QtyBefore(op, item_id) ==
    IF op = "replace_db_with_df" THEN 0 ELSE QtyOf(items, item_id)

C1_Step ==
    /\ AuditBalanced(items', transactions')
    /\ last'.err # "" => StoreUnchanged
    /\ last'.err = "" =>
          /\ \A i \in DOMAIN items \cup DOMAIN items' :
                QtyOf(items', i) - QtyBefore(last'.op, i)
                    = SumOfChanges(AddedBy(last'.op), i)
          /\ last'.op \in {"add_stock", "remove_stock_by_id", "remove_stock_by_signature"}
                => Len(AddedBy(last'.op)) = 1
          /\ last'.op \in {"upsert_items_from_df", "replace_db_with_df"}
                => Len(AddedBy(last'.op)) = Len(last'.rows)

\* C1: from the empty store, every step of the sequential caller, failing calls
\* included, changes a record's quantity by exactly the sum of the deltas of the audit
\* entries the step adds for that record (one entry per single-record call, one per
\* imported row), a failing call adds neither; so in every committed state each
\* record's quantity is the sum of the deltas of the entries referencing it.
C1_QuantityChangesAreAudited == [][C1_Step]_vars

\* a removal has committed after an earlier stock-in of the same record
C1_Witness ==
    /\ Committed("remove_stock_by_id")
    /\ Len(transactions) >= 2
    /\ \E i \in DOMAIN items : items[i].qty = 1 /\ SumOfChanges(transactions, i) = 1

-----------------------------------------------------------------------------
(* C2 *)

\* C2: a step of add_stock, remove_stock_by_id or remove_stock_by_signature (their
\* quantity is > 0), committed or failed, taken in a store whose quantities are all
\* >= 0 leaves all quantities >= 0.
C2_RemovalsKeepQuantitiesNonNegative ==
    [][ ( /\ AllNonNegative(items)
          /\ last'.op \in {"add_stock", "remove_stock_by_id", "remove_stock_by_signature"} )
        => AllNonNegative(items') ]_vars

\* a removal has taken a record down to exactly zero
C2_Witness ==
    /\ last.op \in {"remove_stock_by_id", "remove_stock_by_signature"}
    /\ last.err = ""
    /\ AllNonNegative(items)
    /\ \E i \in DOMAIN items : items[i].qty = 0

-----------------------------------------------------------------------------
(* C3 *)

\* C3: a removal by id or by signature that fails (no record matches: not found; the
\* matched record holds less than asked for: not enough stock) reports that error, and
\* the step leaves items and transactions (quantities, timestamps, audit entries, the
\* audit id counter) exactly as they were.
C3_FailedRemovalLeavesStoreUnchanged ==
    [][ ( /\ last'.op \in {"remove_stock_by_id", "remove_stock_by_signature"}
          /\ last'.err # "" )
        => ( /\ StoreUnchanged
             /\ last'.err \in {"Item ID not found.", "Item not found by signature.",
                                "Not enough stock."} ) ]_vars

\* a removal asked for more than a stocked record holds
C3_Witness ==
    /\ last.op \in {"remove_stock_by_id", "remove_stock_by_signature"}
    /\ last.err = "Not enough stock."
    /\ \E i \in DOMAIN items : items[i].qty >= 1

-----------------------------------------------------------------------------
(* C4 *)

\* what replaceAll(rows) is to leave behind: nothing older than the call, one audit
\* entry per row in row order (reason "replace_import", delta the row's quantity), and
\* one record per row, under the row's identifier if it has one, with the row's fields
ReplacePost(rows) ==
    /\ Len(transactions') = Len(rows)
    /\ Cardinality(DOMAIN items') = Len(rows)
    /\ \A i \in DOMAIN items' : items'[i].last_updated = now'
    /\ \A k \in 1..Len(rows) :
          LET e == transactions'[k]
          IN  /\ e.id > seq
              /\ e.timestamp = now'
              /\ e.reason = "replace_import"
              /\ e.change = rows[k].qty
              /\ rows[k].id # None => e.item_id = rows[k].id
              /\ e.item_id \in DOMAIN items'
              /\ items'[e.item_id].qty = rows[k].qty
              /\ items'[e.item_id].tyre_size = rows[k].tyre_size
              /\ items'[e.item_id].company = rows[k].company
              /\ items'[e.item_id].series = rows[k].series
              /\ \A j \in 1..Len(rows) : j # k => transactions'[j].item_id # e.item_id

\* the original statement of C4: every replaceAll call, whatever identifiers its rows
\* carry or omit, commits and leaves exactly its rows behind
C4_Original ==
    [][ last'.op = "replace_db_with_df" => (last'.err = "" /\ ReplacePost(last'.rows)) ]_vars

\* C4 (amended): a replaceAll call either commits, and then nothing from before the
\* call remains, items holds exactly one record per row (the row's identifier if
\* present, else a store-assigned one, the row's quantity) and transactions exactly
\* one "replace_import" entry per row with the row's quantity as delta (none for the
\* empty row sequence); or a row's identifier is already taken by an earlier row of
\* the call, the call fails with a constraint violation and both tables stay exactly
\* as they were before the call.
C4_ReplaceAllOrNothing ==
    [][ last'.op = "replace_db_with_df" =>
          IF last'.err = "" THEN ReplacePost(last'.rows)
          ELSE last'.err = "IntegrityError" /\ StoreUnchanged ]_vars

\* a replace of two rows, one of them without identifier, has wiped an older store
C4_Witness ==
    /\ Committed("replace_db_with_df")
    /\ Len(last.rows) = 2
    /\ \E k \in 1..2 : last.rows[k].id = None
    /\ seq > Len(transactions)

-----------------------------------------------------------------------------
(* C5 *)

\* (size, company, series) of a record equal those of a row, absent equal to absent only
SameSignature(rec, r) ==
    rec.tyre_size = r.tyre_size /\ rec.company = r.company /\ rec.series = r.series

\* the outcome of the signature path for row r in the current store
SignaturePathOk(r) ==
    LET db == UpsertRowNoId(Current, r, now + 1)
        matching == { i \in DOMAIN items : SameSignature(items[i], r) }
        added == Since(db.transactions, Len(transactions))
    IN  /\ db.err = ""
        /\ Len(added) = 1
        /\ added[1].change = r.qty
        /\ SubSeq(db.transactions, 1, Len(transactions)) = transactions
        /\ IF matching # {}
           THEN /\ DOMAIN db.items = DOMAIN items
                /\ added[1].reason = "import_merge_signature"
                /\ added[1].item_id \in matching
                /\ \A i \in DOMAIN items :
                      /\ db.items[i].qty = items[i].qty
                                            + (IF i = added[1].item_id THEN r.qty ELSE 0)
                      /\ db.items[i].tyre_size = items[i].tyre_size
                      /\ db.items[i].company = items[i].company
                      /\ db.items[i].series = items[i].series
           ELSE /\ added[1].reason = "import_new"
                /\ added[1].item_id \notin DOMAIN items
                /\ DOMAIN db.items = DOMAIN items \cup {added[1].item_id}
                /\ db.items[added[1].item_id].qty = r.qty
                /\ SameSignature(db.items[added[1].item_id], r)
                /\ \A i \in DOMAIN items : db.items[i] = items[i]

-----------------------------------------------------------------------------
(* C6 *)

\* upsert_items_from_df(get_items_df()): the frame of an empty table still has its
\* columns, so both loops run over no rows and nothing is committed
ReimportedItems ==
    LET df == get_items_df(Current)
    IN  IF df = <<>> THEN Current
        ELSE upsert_items_from_df(Current, ColumnsRead(df), now + 1, 0)

\* C6: taking the full list of records (each row carrying its identifier) and importing
\* it back with the merge import succeeds, doubles every record's quantity, leaves size,
\* company and series of every record as they were, creates no record and appends
\* exactly one audit entry per record with the record's former quantity as delta.
C6_RoundTripDoubles ==
    LET db == ReimportedItems
        added == Since(db.transactions, Len(transactions))
    IN  /\ db.err = ""
        /\ DOMAIN db.items = DOMAIN items
        /\ Len(added) = Cardinality(DOMAIN items)
        /\ \A i \in DOMAIN items :
              /\ db.items[i].qty = 2 * items[i].qty
              /\ db.items[i].tyre_size = items[i].tyre_size
              /\ db.items[i].company = items[i].company
              /\ db.items[i].series = items[i].series
              /\ \E k \in 1..Len(added) :
                    /\ added[k].item_id = i
                    /\ added[k].change = items[i].qty
                    /\ \A j \in 1..Len(added) : added[j].item_id = i => j = k

\* a store of two records in stock, one of them without company and series, whose
\* re-import doubles both
C6_Witness ==
    /\ Cardinality(DOMAIN items) = 2
    /\ \A i \in DOMAIN items : items[i].qty > 0
    /\ \E i \in DOMAIN items : items[i].company = NULL /\ items[i].series = NULL
    /\ \A i \in DOMAIN items : ReimportedItems.items[i].qty = 2 * items[i].qty

-----------------------------------------------------------------------------
(* C8 *)

RECURSIVE Identified(_)
\* the rows that carry an identifier, in their order
Identified(rows) ==
    IF rows = <<>> THEN <<>>
    ELSE (IF Head(rows).id # None THEN <<Head(rows)>> ELSE <<>>) \o Identified(Tail(rows))

RECURSIVE Unidentified(_)
\* the rows that carry no identifier, in their order
Unidentified(rows) ==
    IF rows = <<>> THEN <<>>
    ELSE (IF Head(rows).id = None THEN <<Head(rows)>> ELSE <<>>) \o Unidentified(Tail(rows))

\* the step leaves what the per-row rule leaves when applied to rs one row at a time
LeavesRowByRow(rs) ==
    LET ref == UpsertLoop(Current, rs, now + 1)
    IN  items' = ref.items /\ transactions' = ref.transactions /\ seq' = ref.seq

\* the original statement of C8: the committed import equals the per-row rule applied
\* in the order of the row sequence
C8_Original ==
    [][ (last'.op = "upsert_items_from_df" /\ last'.err = "") => LeavesRowByRow(last'.rows) ]_vars

\* C8 (amended): the merge import processes every row that carries an identifier, in
\* sequence order, and after them every row without identifier, in sequence order: for
\* every row sequence and prior store its items table and audit log (entries, reasons,
\* order) equal those of the per-row rule applied one row at a time in that order.
C8_IdentifiedRowsFirst ==
    [][ (last'.op = "upsert_items_from_df" /\ last'.err = "")
        => LeavesRowByRow(Identified(last'.rows) \o Unidentified(last'.rows)) ]_vars

\* an import has committed a sheet whose first row has no identifier and whose second
\* row has one
C8_Witness ==
    /\ Committed("upsert_items_from_df")
    /\ Len(last.rows) = 2
    /\ last.rows[1].id = None
    /\ last.rows[2].id # None

-----------------------------------------------------------------------------
(* C9 *)

\* the original statement of C9: a merge import that fails at row k leaves the changes
\* and audit entries of the k - 1 rows before it committed
C9_Original ==
    [][ (last'.op = "upsert_items_from_df" /\ last'.err = "StoreError")
        => \E done \in [1..(last'.fail_at - 1) -> RowSet] : LeavesRowByRow(done) ]_vars

\* C9 (amended): the merge import is atomic as a whole: when it fails while processing
\* row k, nothing of it is committed; the changes and audit entries of rows 1..k-1 are
\* rolled back together with row k's, and the store is as it was before the call.
C9_FailedImportLeavesStoreUnchanged ==
    [][ (last'.op = "upsert_items_from_df" /\ last'.err # "") => StoreUnchanged ]_vars

\* an import into a stocked store has failed at its second row
C9_Witness ==
    /\ Failed("upsert_items_from_df")
    /\ last.err = "StoreError"
    /\ last.fail_at = 2
    /\ transactions # <<>>

-----------------------------------------------------------------------------
(* C7 *)

\* nothing is deleted by the step: every record and every audit entry is still there
NothingDeleted ==
    /\ DOMAIN items \subseteq DOMAIN items'
    /\ Len(transactions') >= Len(transactions)
    /\ SubSeq(transactions', 1, Len(transactions)) = transactions

-----------------------------------------------------------------------------
(* C10 *)

\* the write of a call that read an existing record
C10_Write ==
    \A c \in Callers :
        (cl[c].pc = "read" /\ cl[c].found /\ cl'[c].pc = "done") =>
            /\ cl'[c].err = ""
            /\ items'[cl[c].item_id].qty = cl[c].cur_qty + Delta(cl[c])
            /\ Len(transactions') = Len(transactions) + 1
            /\ SubSeq(transactions', 1, Len(transactions)) = transactions
            /\ transactions'[Len(transactions')].item_id = cl[c].item_id
            /\ transactions'[Len(transactions')].change = Delta(cl[c])

\* both calls are over, and each had found the record and passed its stock check
C10_BothPassed ==
    \A c \in Callers :
        cl[c].pc = "done" /\ cl[c].found /\ cl[c].err # "Not enough stock."

\* the record was stocked by one add_stock before the calls: one audit entry precedes
\* the callers' entries
C10_Final ==
    C10_BothPassed =>
        /\ \A c \in Callers : cl[c].err = ""
        /\ Len(writers) = 2
        /\ items[1].qty = cl[writers[2]].wrote
        /\ Len(transactions) = 3
        /\ \A k \in 1..2 : /\ transactions[k + 1].item_id = 1
                            /\ transactions[k + 1].change = Delta(cl[writers[k]])

\* C10: two callers run add_stock by id, remove_stock_by_id or remove_stock_by_signature
\* on the same existing record, their reads and writes interleaved in any way. Each call
\* that found the record and passed its stock check completes; its write sets the
\* quantity to the value computed from its own read, whatever the other caller wrote in
\* between, so the final quantity is the last writer's; and the audit log gains exactly
\* one entry per caller, with that caller's own delta.
C10_LastWriteWins == [][C10_Write]_vars /\ []C10_Final

\* both calls completed, and the second writer had read the quantity before the first
\* one wrote: the first writer's change is lost from the quantity, not from the log
C10_Witness ==
    /\ \A c \in Callers : cl[c].pc = "done" /\ cl[c].err = "" /\ cl[c].found
    /\ Len(writers) = 2
    /\ cl[writers[2]].cur_qty # cl[writers[1]].wrote
    /\ items[1].qty = cl[writers[2]].wrote
    /\ Len(transactions) = 3

-----------------------------------------------------------------------------
(* C11 *)

\* the step keeps every audit entry as it was and in its place, and gives every new
\* entry an id above all ids present and all ids handed out before
AppendOnly ==
    /\ Len(transactions') >= Len(transactions)
    /\ SubSeq(transactions', 1, Len(transactions)) = transactions
    /\ \A k \in (Len(transactions) + 1)..Len(transactions') :
          /\ transactions'[k].id > seq
          /\ \A j \in 1..(k - 1) : transactions'[k].id > transactions'[j].id

\* the step keeps every record id
IdsKept == DOMAIN items \subseteq DOMAIN items'

\* C11: every step of add_stock, remove_stock_by_id, remove_stock_by_signature or
\* upsert_items_from_df, failing calls included, leaves every audit entry present and
\* unmodified, gives each new audit entry a store-assigned id greater than all earlier
\* ones, and keeps every record id; a step that removes an audit entry or a record is
\* a step of replace_db_with_df.
C11_AuditLogIsAppendOnly ==
    [][ /\ last'.op # "replace_db_with_df" => (AppendOnly /\ IdsKept)
        /\ ~(AppendOnly /\ IdsKept) => last'.op = "replace_db_with_df" ]_vars

\* over a store with a record and audit entries, a removal has emptied the record and
\* appended its entry: the record and the earlier entries are still there
C11_Witness ==
    /\ Committed("remove_stock_by_id")
    /\ Len(transactions) >= 2
    /\ transactions[Len(transactions)].id > transactions[Len(transactions) - 1].id
    /\ \E i \in DOMAIN items :
          /\ items[i].qty = 0
          /\ transactions[Len(transactions)].item_id = i

====
